---- MODULE Spec2Model ----
(***************************************************************************)
(* A model of app/browser/notifications/activityHub.js: the module-level   *)
(* registry eventHandlers, the public methods on/off/start/setDefaultTitle *)
(* of the ActivityHub singleton, the polling wait whenControllerReady, the *)
(* wiring of the framework listeners and the handlers that relay the       *)
(* framework's events to the registered subscribers.                       *)
(*                                                                         *)
(* Subscription objects are modelled with their identity: every object     *)
(* pushed gets the next id, and an array made by Array.prototype.filter is *)
(* the list of the ids of the objects it references.  The only write to a  *)
(* subscription object is `handler = null`, made by removeEventHandler on  *)
(* the object it then splices out, and a spliced object never comes back:  *)
(* the objects of eventHandlers are kept in full, and an object that is no *)
(* longer in eventHandlers is one whose handler reads null.                *)
(***************************************************************************)
EXTENDS Integers, Sequences, FiniteSets, TLC

\* ---------------------------------------------------------------- bounds
\* on() calls that push a subscription (subscription objects ever made).
MaxSubs == 2
\* Math.ceil(Math.random() * 100000) is drawn from 0..MaxHandle.
MaxHandle == 1
\* start() calls, and setDefaultTitle() calls.
MaxStarts == 2

\* ---------------------------------------------------------------- values
\* `let handle;` never assigned: the value returned by a rejected on().
Undefined == -1
\* `return null` of removeEventHandler.
Null == -2

supportedEvents ==
    << "call-connected", "call-disconnected",
       "activities-count-updated", "meeting-started" >>

\* Event names passed to on()/off(): the supported ones and one that is not.
EventArgs == { supportedEvents[i] : i \in 1..Len(supportedEvents) } \cup { "typing" }

\* The event names the framework's synchronous relays dispatch, and "typing".
RelayEventArgs == EventArgs \ { "meeting-started" }

\* A JavaScript value passed as `handler`.  type is its typeof; a function
\* has a body: "f" only returns, "unsub" calls off(ev, hd), "resub" calls
\* on(ev, f).  Any call of any function may throw instead.
Val(type, body, ev, hd) == [type |-> type, body |-> body, ev |-> ev, hd |-> hd]
FnF == Val("function", "f", "", 0)
FnUnsub(ev, hd) == Val("function", "unsub", ev, hd)
FnResub(ev) == Val("function", "resub", ev, 0)
NullValue == Val("object", "null", "", 0)
StringValue == Val("string", "", "", 0)

RandomHandles == 0..MaxHandle

\* ------------------------------------------------------- registry helpers
\* Mutant: `e = event` for `e === event`, an assignment that is always truthy.
isSupportedEventAssign(event) ==
    \E i \in 1..Len(supportedEvents) : event = event

isSupportedEvent(event) ==
    \E i \in 1..Len(supportedEvents) : supportedEvents[i] = event

isFunction(func) == func.type = "function"

\* The registry as a value: list the array eventHandlers (each object with
\* its id), made the number of subscription objects made so far.
Store(list, made) == [list |-> list, made |-> made]

\* Mutant: the handle alone is compared, the event name is not.
getHandleIndexByHandle(st, event, handle) ==
    LET hits == { i \in 1..Len(st.list) : st.list[i].handle = handle }
    IN  IF hits = {} THEN 0 ELSE CHOOSE i \in hits : \A j \in hits : i <= j

\* Array.prototype.findIndex, 1-based; 0 stands for the code's -1.
getHandleIndex(st, event, handle) ==
    LET hits == { i \in 1..Len(st.list) :
                    st.list[i].event = event /\ st.list[i].handle = handle }
    IN  IF hits = {} THEN 0 ELSE CHOOSE i \in hits : \A j \in hits : i <= j

\* Mutant: unshift for push, the new subscription goes to the front.
addEventHandlerUnshift(st, event, handler, rand) ==
    IF isSupportedEvent(event) /\ isFunction(handler)
    THEN [ st  |-> Store(<< [id |-> st.made + 1, event |-> event, handle |-> rand,
                             handler |-> handler] >> \o st.list,
                         st.made + 1),
           ret |-> rand ]
    ELSE [ st |-> st, ret |-> Undefined ]

\* addEventHandler with `rand` the value of Math.ceil(Math.random() * 100000).
addEventHandler(st, event, handler, rand) ==
    IF isSupportedEvent(event) /\ isFunction(handler)
    THEN [ st  |-> Store(Append(st.list,
                            [id |-> st.made + 1, event |-> event, handle |-> rand,
                             handler |-> handler]),
                         st.made + 1),
           ret |-> rand ]
    ELSE [ st |-> st, ret |-> Undefined ]

\* Array.prototype.splice(index, 1).
Splice1(s, index) ==
    [ i \in 1..(Len(s) - 1) |-> IF i < index THEN s[i] ELSE s[i + 1] ]

\* Mutant: splice(handlerIndex) without the delete count, which removes the
\* entry and every entry behind it.
removeEventHandlerSpliceRest(st, event, handle) ==
    LET handlerIndex == getHandleIndex(st, event, handle)
    IN  IF handlerIndex > 0
        THEN [ st  |-> Store(SubSeq(st.list, 1, handlerIndex - 1), st.made),
               ret |-> handle ]
        ELSE [ st |-> st, ret |-> Null ]

\* The object's handler is set to null (see HandlerOf) and the object is
\* spliced out.
removeEventHandler(st, event, handle) ==
    LET handlerIndex == getHandleIndex(st, event, handle)
    IN  IF handlerIndex > 0
        THEN [ st  |-> Store(Splice1(st.list, handlerIndex), st.made),
               ret |-> handle ]
        ELSE [ st |-> st, ret |-> Null ]

\* Array.prototype.filter: a new array of the matching references, in order.
IdsOf(list) == [ i \in 1..Len(list) |-> list[i].id ]

\* Mutant: the filter lets every subscription through.
getEventHandlersAll(st, event) == IdsOf(st.list)

getEventHandlers(st, event) ==
    IdsOf(SelectSeq(st.list, LAMBDA h : h.event = event))

\* handler.handler read through a reference: the object's handler while it is
\* in eventHandlers, null once removeEventHandler has taken it out.
HandlerOf(st, id) ==
    IF \E i \in 1..Len(st.list) : st.list[i].id = id
    THEN st.list[CHOOSE i \in 1..Len(st.list) : st.list[i].id = id].handler
    ELSE NullValue

\* ------------------------------------------------------------------ state
VARIABLES
    eventHandlers,    \* const eventHandlers = []: {id, event, handle, handler}
    made,             \* number of subscription objects made by on()
    controller,       \* window.angular...controller() is available
    timers,           \* pending setTimeout(..., 4000) callbacks, oldest first
    listeners,        \* listeners registered on the framework, per source event
    pageTitleDefault, \* controller.pageTitleDefault
    inflight,         \* onMessageUpdatesFromWorker calls suspended at an await
    started,          \* number of start() calls made
    titled,           \* number of setDefaultTitle() calls made
    titleWrites,      \* number of writes to controller.pageTitleDefault
    last              \* the operation that made the last step, and its outcome

vars == << eventHandlers, made, controller, timers, listeners,
           pageTitleDefault, inflight, started, titled, titleWrites, last >>

SourceEvents ==
    { "bellCountUpdated", "EventType_UnreadCount", "callConnected",
      "callDisposed", "messageUpdatesFromWorker" }

\* Payloads handed to the subscribers: {}, {count} and {title}.
EmptyPayload == [kind |-> "empty", count |-> 0, title |-> ""]
CountPayload(count) == [kind |-> "count", count |-> count, title |-> ""]
TitlePayload(title) == [kind |-> "title", count |-> 0, title |-> title]

\* The callbacks given to whenControllerReady.
CbAssign == [cb |-> "assignEventHandlers", title |-> ""]
CbTitle(title) == [cb |-> "setDefaultTitle", title |-> title]

\* The record of a step: the operation, its arguments, what it returned, the
\* subscriber invocations it made (in order) and the promises it left rejected;
\* for a worker message its items, for a turn of a refresh loop the suspended
\* call it belongs to and the cache it read.
Idle ==
    [ op |-> "init", event |-> "", handle |-> 0, handler |-> NullValue,
      ret |-> Undefined, calls |-> << >>, rejections |-> 0, bell |-> 0, chat |-> 0,
      data |-> "", title |-> "", items |-> << >>, call |-> 0, cached |-> << >> ]

\* The program state an operation runs on, with what it meets in its
\* environment: the two counts of the controller's services, the values
\* Math.random() yields (rnd[k] for the k-th subscription object) and the
\* subscriber call that throws (the fail-th call the operation makes, 0: none).
Begin(bell, chat, rnd, fail) ==
    [ st |-> Store(eventHandlers, made), controller |-> controller,
      timers |-> timers, listeners |-> listeners,
      pageTitleDefault |-> pageTitleDefault, inflight |-> inflight,
      titleWrites |-> titleWrites,
      calls |-> << >>, threw |-> FALSE, rejections |-> 0,
      bell |-> bell, chat |-> chat, rnd |-> rnd, fail |-> fail ]

RandAt(d) == IF d.st.made + 1 \in DOMAIN d.rnd THEN d.rnd[d.st.made + 1] ELSE 0

\* ---------------------------------------------------------------- dispatch
\* handler.handler(payload) on subscription object id.
callHandler(d, id, payload) ==
    LET fn == HandlerOf(d.st, id)
        throws == Len(d.calls) + 1 = d.fail
        called == [d EXCEPT !.calls = Append(@, [sub |-> id, fn |-> fn.body,
                                                 payload |-> payload,
                                                 threw |-> throws])]
    IN  IF ~isFunction(fn)
        THEN [d EXCEPT !.threw = TRUE]           \* TypeError: not a function
        ELSE CASE throws -> [called EXCEPT !.threw = TRUE]
               [] fn.body = "unsub" ->
                    [called EXCEPT !.st = removeEventHandler(d.st, fn.ev, fn.hd).st]
               [] fn.body = "resub" ->
                    [called EXCEPT !.st = addEventHandler(d.st, fn.ev, FnF, RandAt(d)).st]
               [] OTHER -> called

\* for (const handler of handlers) { handler.handler(payload); }
RECURSIVE callHandlers(_, _, _)
callHandlers(d, handlers, payload) ==
    IF handlers = << >> \/ d.threw
    THEN d
    ELSE callHandlers(callHandler(d, Head(handlers), payload), Tail(handlers), payload)

\* The end of an async function's synchronous run: an exception thrown in it
\* rejects the promise it returned and does not reach its caller.
AsyncReturn(d) ==
    IF d.threw THEN [d EXCEPT !.threw = FALSE, !.rejections = @ + 1] ELSE d

\* Mutant: the handlers are taken out of the registry (splice) and not copied
\* (filter) before they are called.
onActivitiesCountUpdatedSplice(d) ==
    LET count == d.bell + d.chat
        handlers == getEventHandlers(d.st, "activities-count-updated")
        rest == SelectSeq(d.st.list, LAMBDA h : h.event # "activities-count-updated")
    IN  AsyncReturn(callHandlers([d EXCEPT !.st = Store(rest, d.st.made)],
                                 handlers, CountPayload(count)))

onActivitiesCountUpdated(d) ==
    LET count == d.bell + d.chat
        handlers == getEventHandlers(d.st, "activities-count-updated")
    IN  AsyncReturn(callHandlers(d, handlers, CountPayload(count)))

onCallConnected(d) ==
    LET handlers == getEventHandlers(d.st, "call-connected")
    IN  AsyncReturn(callHandlers(d, handlers, EmptyPayload))

onCallDisconnected(d) ==
    LET handlers == getEventHandlers(d.st, "call-disconnected")
    IN  AsyncReturn(callHandlers(d, handlers, EmptyPayload))

\* ------------------------------------------------------------------ wiring
AddListener(d, src) == [d EXCEPT !.listeners[src] = @ + 1]

assignActivitiesCountUpdateHandler(d) ==
    onActivitiesCountUpdated(
        AddListener(AddListener(d, "bellCountUpdated"), "EventType_UnreadCount"))

assignCallConnectedHandler(d) == AddListener(d, "callConnected")

assignCallDisconnectedHandler(d) == AddListener(d, "callDisposed")

assignWorkerMessagingUpdatesHandler(d) == AddListener(d, "messageUpdatesFromWorker")

assignEventHandlers(d) ==
    assignWorkerMessagingUpdatesHandler(
        assignCallDisconnectedHandler(
            assignCallConnectedHandler(
                assignActivitiesCountUpdateHandler(d))))

\* Mutant: the title is written with `||=`, only while none is set.
RunCallbackKeepTitle(d, callback) ==
    IF callback.cb = "assignEventHandlers"
    THEN assignEventHandlers(d)
    ELSE IF d.pageTitleDefault = ""
         THEN [d EXCEPT !.pageTitleDefault = callback.title, !.titleWrites = @ + 1]
         ELSE d

\* callback(controller) for the two callbacks the module passes.
RunCallback(d, callback) ==
    IF callback.cb = "assignEventHandlers"
    THEN assignEventHandlers(d)
    ELSE [d EXCEPT !.pageTitleDefault = callback.title, !.titleWrites = @ + 1]

\* Mutant: the callback is run without looking at the controller.
whenControllerReadyUnchecked(d, callback) == RunCallback(d, callback)

\* Mutant: a failed check arms no timer.
whenControllerReadyOnce(d, callback) ==
    IF d.controller THEN RunCallback(d, callback) ELSE d

\* A failed check arms one timer that repeats the check with the same callback.
whenControllerReady(d, callback) ==
    IF d.controller
    THEN RunCallback(d, callback)
    ELSE [d EXCEPT !.timers = Append(@, callback)]

\* ---------------------------------------------------- worker message flow
\* The content of a call event that lists no participant.
EmptyPartList == "<partlist alt =\"\"></partlist>"

\* String.prototype.split(sep) on a string given as its characters: the
\* pieces between the occurrences of sep, an empty piece included.
RECURSIVE Split(_, _, _)
Split(s, sep, piece) ==
    IF s = << >> THEN << piece >>
    ELSE IF Head(s) = sep THEN << piece >> \o Split(Tail(s), sep, << >>)
    ELSE Split(Tail(s), sep, Append(piece, Head(s)))

\* we.conversationLink.split('/')[1] is undefined for a link without '/',
\* and the .split(';') on it is a TypeError.
LinkThrows(link) == Len(Split(link, "/", << >>)) < 2

\* we.conversationLink.split('/')[1].split(';')[0]
MeetingIdOf(link) == Split(Split(link, "/", << >>)[2], ";", << >>)[1]

\* JSON.parse(ce.skypeTeamsData).cid of the text {"cid": "<characters>"}.
JsonCid(text) == SubSeq(text, 3, Len(text) - 1)

getMeetingEvents(items) ==
    SelectSeq(items, LAMBDA r : r.messagetype = "Event/Call" /\ r.content = EmptyPartList)

\* new Date() at the time the calendar entries are read.
RightNow == 2

activeCalendarEvents(cached) ==
    SelectSeq(cached, LAMBDA ce : ce.endTime - RightNow > 0)

\* Mutant: the loop over the calendar entries has no `break`: every entry of
\* the meeting is pushed.
addEligibleCalendarEventsNoBreak(calendarEvents, meetingId) ==
    SelectSeq(calendarEvents,
              LAMBDA ce : JsonCid(ce.skypeTeamsData) = meetingId)

\* The first calendar entry of the meeting, as a list of zero or one entry.
addEligibleCalendarEvents(calendarEvents, meetingId) ==
    LET hits == { i \in 1..Len(calendarEvents) :
                    JsonCid(calendarEvents[i].skypeTeamsData) = meetingId }
    IN  IF hits = {} THEN << >>
        ELSE << calendarEvents[CHOOSE i \in hits : \A j \in hits : i <= j] >>

RECURSIVE getMeetingNotificationList(_, _)
getMeetingNotificationList(workerEvents, calendarEvents) ==
    IF workerEvents = << >> THEN << >>
    ELSE addEligibleCalendarEvents(calendarEvents,
                                   MeetingIdOf(Head(workerEvents).conversationLink))
         \o getMeetingNotificationList(Tail(workerEvents), calendarEvents)

callMeetingStartedEventHandlers(d, handlers, e) ==
    callHandlers(d, handlers, TitlePayload(e.subject))

\* for (const e of events) { callMeetingStartedEventHandlers(handlers, e); }
RECURSIVE forEachMeetingEvent(_, _, _)
forEachMeetingEvent(d, handlers, events) ==
    IF events = << >> \/ d.threw
    THEN d
    ELSE forEachMeetingEvent(callMeetingStartedEventHandlers(d, handlers, Head(events)),
                             handlers, Tail(events))

\* Mutant: the Array.isArray test is dropped.
onMessageUpdatesFromWorkerAnyData(d, data) ==
    LET handlers == getEventHandlers(d.st, "meeting-started")
        workerEvents == getMeetingEvents(data.items)
    IN  IF Len(workerEvents) > 0
        THEN [d EXCEPT !.inflight =
                 Append(@, [handlers |-> handlers, workerEvents |-> workerEvents,
                            status |-> 0])]
        ELSE d

\* onMessageUpdatesFromWorker up to its await: with a meeting event in the
\* message, calendarService.refreshCalendarEvents() is called (its promise
\* starts with $$state.status 0) and the call is suspended with the handlers
\* it has read; with none, the awaited list is empty and nothing follows.
onMessageUpdatesFromWorker(d, data) ==
    IF data.type = "array"
    THEN LET handlers == getEventHandlers(d.st, "meeting-started")
             workerEvents == getMeetingEvents(data.items)
         IN  IF Len(workerEvents) > 0
             THEN [d EXCEPT !.inflight =
                      Append(@, [handlers |-> handlers, workerEvents |-> workerEvents,
                                 status |-> 0])]
             ELSE d
    ELSE d

\* The rest of onMessageUpdatesFromWorker for the suspended call m, run when
\* refreshCalendarEvents' loop ends: `cached` is what getCachedEvents() returns.
resumeMessageUpdates(d, m, cached) ==
    LET events == getMeetingNotificationList(m.workerEvents, activeCalendarEvents(cached))
    IN  IF \E k \in 1..Len(m.workerEvents) : LinkThrows(m.workerEvents[k].conversationLink)
        THEN AsyncReturn([d EXCEPT !.threw = TRUE])
        ELSE AsyncReturn(forEachMeetingEvent(d, m.handlers, events))

\* Mutant: `while` without `do`: the status is not looked at after the wait.
refreshCalendarEventsOnce(d, i, cached) ==
    resumeMessageUpdates([d EXCEPT !.inflight = Splice1(@, i)], d.inflight[i], cached)

\* One turn of `do { await timeout(1000) } while (c.$$state.status == 0)` of
\* the suspended call at index i.
refreshCalendarEvents(d, i, cached) ==
    IF d.inflight[i].status = 0
    THEN d
    ELSE resumeMessageUpdates([d EXCEPT !.inflight = Splice1(@, i)], d.inflight[i], cached)

\* ------------------------------------------------------------------ inputs
\* Handlers passed to on(): a function and a value that is no function.
HandlerArgs == { FnF, StringValue }

Titles == { "Teams", "Chat" }

\* Math.random() is read only by a subscriber that calls on().
RandomChoices ==
    IF \E k \in 1..Len(eventHandlers) : eventHandlers[k].handler.body = "resub"
    THEN [ 1..(MaxSubs + 1) -> RandomHandles ]
    ELSE { [ k \in 1..(MaxSubs + 1) |-> 0 ] }

\* Math.random() is read only by an on() that accepts its arguments.
RandomFor(event, handler) ==
    IF isSupportedEvent(event) /\ isFunction(handler) THEN RandomHandles ELSE { 0 }

NoRandom == [ k \in 1..(MaxSubs + 1) |-> 0 ]

\* Counts read from bellNotificationsService and chatListService.
Counts == 0..1

\* The call that throws, among the calls that n relays of event can make.
FailChoices(event, n) ==
    0..(n * Len(getEventHandlers(Store(eventHandlers, made), event)))

\* What a check of whenControllerReady can meet: the wiring's relay of the
\* counts runs only if the controller is there.
CheckInputs ==
    IF controller
    THEN { [bell |-> b, chat |-> c, rnd |-> r, fail |-> f] :
             b \in Counts, c \in Counts, r \in RandomChoices,
             f \in FailChoices("activities-count-updated", 1) }
    ELSE { [bell |-> 0, chat |-> 0, rnd |-> NoRandom, fail |-> 0] }

\* -------------------------------------------------------------------- Init
Init ==
    /\ eventHandlers = << >>
    /\ made = 0
    /\ controller = FALSE
    /\ timers = << >>
    /\ listeners = [ src \in SourceEvents |-> 0 ]
    /\ pageTitleDefault = ""
    /\ inflight = << >>
    /\ started = 0
    /\ titled = 0
    /\ titleWrites = 0
    /\ last = Idle

\* The state an operation leaves, and the record of the step.
Commit(d, step) ==
    /\ d.st.made <= MaxSubs
    /\ eventHandlers' = d.st.list
    /\ made' = d.st.made
    /\ timers' = d.timers
    /\ listeners' = d.listeners
    /\ pageTitleDefault' = d.pageTitleDefault
    /\ inflight' = d.inflight
    /\ titleWrites' = d.titleWrites
    /\ last' = [step EXCEPT !.calls = d.calls, !.rejections = d.rejections,
                            !.bell = d.bell, !.chat = d.chat]

\* ------------------------------------------------------------- the methods
\* ActivityHub.on(event, handler)
on(event, handler, rand) ==
    LET d == Begin(0, 0, NoRandom, 0)
        r == addEventHandler(d.st, event, handler, rand)
    IN  /\ Commit([d EXCEPT !.st = r.st],
                  [Idle EXCEPT !.op = "on", !.event = event, !.handler = handler,
                               !.ret = r.ret])
        /\ UNCHANGED << controller, started, titled >>

\* ActivityHub.off(event, handle)
off(event, handle) ==
    LET d == Begin(0, 0, NoRandom, 0)
        r == removeEventHandler(d.st, event, handle)
    IN  /\ Commit([d EXCEPT !.st = r.st],
                  [Idle EXCEPT !.op = "off", !.event = event, !.handle = handle,
                               !.ret = r.ret])
        /\ UNCHANGED << controller, started, titled >>

\* ActivityHub.start()
start(in) ==
    /\ started < MaxStarts
    /\ started' = started + 1
    /\ Commit(whenControllerReady(Begin(in.bell, in.chat, in.rnd, in.fail), CbAssign),
              [Idle EXCEPT !.op = "start"])
    /\ UNCHANGED << controller, titled >>

\* ActivityHub.setDefaultTitle(title)
setDefaultTitle(title) ==
    /\ titled < MaxStarts
    /\ titled' = titled + 1
    /\ Commit(whenControllerReady(Begin(0, 0, NoRandom, 0), CbTitle(title)),
              [Idle EXCEPT !.op = "setDefaultTitle", !.title = title])
    /\ UNCHANGED << controller, started >>

\* The oldest 4000 ms timer fires: () => whenControllerReady(callback).
Timer(in) ==
    /\ timers # << >>
    /\ Commit(whenControllerReady([Begin(in.bell, in.chat, in.rnd, in.fail)
                                       EXCEPT !.timers = Tail(@)],
                                  Head(timers)),
              [Idle EXCEPT !.op = "timer", !.event = Head(timers).cb,
                           !.title = Head(timers).title])
    /\ UNCHANGED << controller, started, titled >>

\* The page's framework comes up: controller() returns the controller.
ControllerReady ==
    /\ ~controller
    /\ controller' = TRUE
    /\ last' = [Idle EXCEPT !.op = "controllerReady"]
    /\ UNCHANGED << eventHandlers, made, timers, listeners, pageTitleDefault,
                    inflight, started, titled, titleWrites >>

\* ------------------------------------------------- the framework's events
\* The listener the wiring registered for source event src.
Listener(d, src, data) ==
    CASE src = "callConnected" -> onCallConnected(d)
      [] src = "callDisposed" -> onCallDisconnected(d)
      [] src = "messageUpdatesFromWorker" -> onMessageUpdatesFromWorker(d, data)
      [] OTHER -> onActivitiesCountUpdated(d)

\* The framework calls each of the n listeners registered for src.
RECURSIVE Emit(_, _, _, _)
Emit(d, src, data, n) ==
    IF n = 0 THEN d ELSE Emit(Listener(d, src, data), src, data, n - 1)

NoData == [type |-> "undefined", items |-> << >>]

Fire(src, data, bell, chat, rnd, fail) ==
    /\ Commit(Emit(Begin(bell, chat, rnd, fail), src, data, listeners[src]),
              [Idle EXCEPT !.op = src, !.data = data.type, !.items = data.items])
    /\ UNCHANGED << controller, started, titled >>

BellCountUpdated ==
    \E bell \in Counts, chat \in Counts, rnd \in RandomChoices,
       fail \in FailChoices("activities-count-updated", listeners["bellCountUpdated"]) :
        Fire("bellCountUpdated", NoData, bell, chat, rnd, fail)

UnreadCountChanged ==
    \E bell \in Counts, chat \in Counts, rnd \in RandomChoices,
       fail \in FailChoices("activities-count-updated", listeners["EventType_UnreadCount"]) :
        Fire("EventType_UnreadCount", NoData, bell, chat, rnd, fail)

CallConnected ==
    \E rnd \in RandomChoices,
       fail \in FailChoices("call-connected", listeners["callConnected"]) :
        Fire("callConnected", NoData, 0, 0, rnd, fail)

CallDisposed ==
    \E rnd \in RandomChoices,
       fail \in FailChoices("call-disconnected", listeners["callDisposed"]) :
        Fire("callDisposed", NoData, 0, 0, rnd, fail)

\* ------------------------------------------------------ the registry's spec
\* The registry under on() and off() and the synchronous relays of a hub that
\* start() wires once.
Next ==
    \/ \E event \in RelayEventArgs, handler \in HandlerArgs :
           \E rand \in RandomFor(event, handler) : on(event, handler, rand)
    \/ \E event \in RelayEventArgs, handle \in RandomHandles : off(event, handle)
    \/ /\ started = 0
       /\ \E in \in CheckInputs : start(in)
    \/ \E in \in CheckInputs : Timer(in)
    \/ ControllerReady
    \/ BellCountUpdated
    \/ UnreadCountChanged
    \/ CallConnected
    \/ CallDisposed

Spec == Init /\ [][Next]_vars

\* ------------------------------------------------------- the startup's spec
\* start() and setDefaultTitle() called at any time, the polling wait, and
\* subscribers of the counts to see what the wiring and the relays invoke.
\* The handle a subscription draws plays no part in the wait or the wiring.
TimerFires == \E in \in CheckInputs : Timer(in)

NextStart ==
    \/ \E in \in CheckInputs : start(in)
    \/ \E title \in Titles : setDefaultTitle(title)
    \/ TimerFires
    \/ ControllerReady
    \/ on("activities-count-updated", FnF, 0)
    \/ BellCountUpdated

SpecStart == Init /\ [][NextStart]_vars

\* The polling wait alone, with the event loop's guarantee that a timer that
\* is armed fires: the check is repeated as long as it fails.
NextPoll ==
    \/ \E in \in CheckInputs : start(in)
    \/ \E title \in Titles : setDefaultTitle(title)
    \/ TimerFires
    \/ ControllerReady

SpecPoll == Init /\ [][NextPoll]_vars /\ WF_vars(TimerFires)

\* ------------------------------------------------- the worker channel's spec
\* Worker messages suspended at one time.
MaxInflight == 1

\* conversationLink values: "t/a;g" and "t/b".
LinkA == << "t", "/", "a", ";", "g" >>
LinkB == << "t", "/", "b" >>

WorkerRecord(messagetype, content, link) ==
    [messagetype |-> messagetype, content |-> content, conversationLink |-> link]

\* The payloads of the worker channel: arrays of records (a call event without
\* participants for each of two meetings, a call event with participants, a
\* text message), and two values that are no array, one of them an object
\* that holds a record.
WorkerData ==
    LET a == WorkerRecord("Event/Call", EmptyPartList, LinkA)
        b == WorkerRecord("Event/Call", EmptyPartList, LinkB)
        p == WorkerRecord("Event/Call", "<partlist><part/></partlist>", LinkA)
        t == WorkerRecord("Text", EmptyPartList, LinkA)
    IN  { [type |-> "array", items |-> << >>],
          [type |-> "array", items |-> << a >>],
          [type |-> "array", items |-> << t, p >>],
          [type |-> "array", items |-> << p, b, a >>],
          [type |-> "array", items |-> << a, t, a >>],
          [type |-> "object", items |-> << a >>],
          NoData }

CalendarEntry(cid, endTime, subject) ==
    [skypeTeamsData |-> << "{", "cid", cid, "}" >>, endTime |-> endTime,
     subject |-> subject]

\* What calendarService.getCachedEvents() can return: nothing; an entry of
\* meeting a that has ended before two running ones; a running entry of
\* meeting b before one of meeting a.
CachedEvents ==
    LET s1 == CalendarEntry("a", 3, "Standup")
        r1 == CalendarEntry("a", 3, "Retro")
        e1 == CalendarEntry("a", 1, "Ended")
        v2 == CalendarEntry("b", 3, "Review")
    IN  { << >>, << e1, s1, r1 >>, << v2, r1 >> }

\* The framework delivers a worker message to the listeners.
MessageUpdatesFromWorker(data) ==
    /\ Len(inflight) < MaxInflight
    /\ Fire("messageUpdatesFromWorker", data, 0, 0, NoRandom, 0)

\* The promise of calendarService.refreshCalendarEvents() of the suspended call
\* i is resolved (1) or rejected (2).
RefreshSettles(i, status) ==
    /\ inflight[i].status = 0
    /\ inflight' = [inflight EXCEPT ![i].status = status]
    /\ last' = [Idle EXCEPT !.op = "refreshSettles"]
    /\ UNCHANGED << eventHandlers, made, controller, timers, listeners,
                    pageTitleDefault, started, titled, titleWrites >>

\* The 1000 ms timer of the suspended call i fires.
RefreshTimer(i, cached, rnd, fail) ==
    /\ Commit(refreshCalendarEvents(Begin(0, 0, rnd, fail), i, cached),
              [Idle EXCEPT !.op = "refreshTimer", !.call = i, !.cached = cached])
    /\ UNCHANGED << controller, started, titled >>

\* The subscriber calls that the end of the refresh loop of the suspended call
\* m can make: one for each handler it holds and each notification.
ResumeCalls(m, cached) ==
    IF m.status = 0 THEN 0
    ELSE Len(m.handlers)
           * Len(getMeetingNotificationList(m.workerEvents, activeCalendarEvents(cached)))

\* The worker channel. The handles drawn for the subscriptions go round the
\* handle range, so that off() can pick any one of neighbouring subscriptions;
\* a turn of the refresh loop reads the cache and meets a throwing callback
\* only when the loop ends.
NextWorker ==
    \/ on("meeting-started", FnF, made % (MaxHandle + 1))
    \/ \E handle \in RandomHandles : off("meeting-started", handle)
    \/ /\ started = 0
       /\ \E in \in CheckInputs : start(in)
    \/ TimerFires
    \/ ControllerReady
    \/ \E data \in WorkerData : MessageUpdatesFromWorker(data)
    \/ \E i \in 1..Len(inflight), status \in { 1, 2 } : RefreshSettles(i, status)
    \/ \E i \in 1..Len(inflight) :
           \E cached \in (IF inflight[i].status = 0 THEN { << >> } ELSE CachedEvents) :
               \E fail \in 0..ResumeCalls(inflight[i], cached) :
                   RefreshTimer(i, cached, NoRandom, fail)

SpecWorker == Init /\ [][NextWorker]_vars

\* ------------------------------------------------ the reentrant callbacks' spec
\* Callbacks that call off() or on() while they are being dispatched: the
\* subscribers of call-connected are plain callbacks, callbacks that
\* unsubscribe a handle of call-connected and callbacks that subscribe a plain
\* callback to call-connected.  The handles that on() draws go round the handle
\* range; the ones drawn inside a callback are free.
ReentrantHandlers ==
    { FnF, FnResub("call-connected") }
        \cup { FnUnsub("call-connected", hd) : hd \in RandomHandles }

NextReentrant ==
    \/ \E handler \in ReentrantHandlers :
           on("call-connected", handler, made % (MaxHandle + 1))
    \/ \E handle \in RandomHandles : off("call-connected", handle)
    \/ /\ started = 0
       /\ \E in \in CheckInputs : start(in)
    \/ TimerFires
    \/ ControllerReady
    \/ CallConnected

SpecReentrant == Init /\ [][NextReentrant]_vars

\* ================================================================ claims
\* The four supported names, written out.
FourNames ==
    { "call-connected", "call-disconnected", "activities-count-updated",
      "meeting-started" }

\* The event name each synchronous source event is relayed under.
MappedEvent(op) ==
    CASE op = "callConnected" -> "call-connected"
      [] op = "callDisposed" -> "call-disconnected"
      [] op \in { "bellCountUpdated", "EventType_UnreadCount" } ->
            "activities-count-updated"
      [] OTHER -> ""

\* The subscriptions of a registry that match (event, handle).
Matches(reg, event, handle) ==
    { i \in 1..Len(reg) : reg[i].event = event /\ reg[i].handle = handle }

\* reg without its i-th entry.
Without(reg, i) == SubSeq(reg, 1, i - 1) \o SubSeq(reg, i + 1, Len(reg))

\* The ids of the subscriptions of reg registered for event, in registry order.
SubscribersOf(reg, event) ==
    LET subs == SelectSeq(reg, LAMBDA h : h.event = event)
    IN  [ i \in 1..Len(subs) |-> subs[i].id ]

CallsSubs(calls) == [ k \in 1..Len(calls) |-> calls[k].sub ]

\* C1: off(eventName, handle) with a pair that a registered subscription holds
\* returns that handle and removes exactly one subscription, one holding that
\* pair, every other entry staying in place; and every subscription a step
\* invokes is one that is registered when the step begins, so that no dispatch
\* after the off() invokes the subscription it removed.
C1_OffRemovesExactlyThatSubscription ==
    [][ /\ ( /\ last'.op = "off"
             /\ Matches(eventHandlers, last'.event, last'.handle) # {} )
          => /\ last'.ret = last'.handle
             /\ \E i \in Matches(eventHandlers, last'.event, last'.handle) :
                    eventHandlers' = Without(eventHandlers, i)
        /\ \A k \in 1..Len(last'.calls) :
               \E i \in 1..Len(eventHandlers) :
                   eventHandlers[i].id = last'.calls[k].sub ]_vars

\* An off() has removed one of two subscriptions and the other is still there.
C1_Witness ==
    /\ last.op = "off"
    /\ last.ret = last.handle
    /\ Len(eventHandlers) >= 1

\* C2: a relayed source event invokes every subscription registered for the
\* mapped event name exactly once, in registration order, all with the same
\* payload, and none registered for another name.
C2_EverySubscriberInvokedOnceInOrder ==
    [][ ( /\ MappedEvent(last'.op) # ""
          /\ listeners[last'.op] > 0 )
        => /\ CallsSubs(last'.calls) = SubscribersOf(eventHandlers, MappedEvent(last'.op))
           /\ \A j, k \in 1..Len(last'.calls) :
                  last'.calls[j].payload = last'.calls[k].payload ]_vars

\* C3: when a subscriber's callback throws during a relay, every subscription
\* registered after it for the same event name is still invoked.
C3_ThrowDoesNotAbortDispatch ==
    [][ ( /\ MappedEvent(last'.op) # ""
          /\ listeners[last'.op] > 0 )
        => LET subs == SubscribersOf(eventHandlers, MappedEvent(last'.op))
           IN  \A k \in 1..Len(last'.calls) :
                   last'.calls[k].threw =>
                       \A i \in 1..Len(subs) :
                           (\E j \in 1..i - 1 : subs[j] = last'.calls[k].sub)
                               => \E m \in 1..Len(last'.calls) :
                                      last'.calls[m].sub = subs[i] ]_vars

\* C4: no two registered subscriptions share the same (event, handle) pair.
C4_PairsAreUnique ==
    \A i, j \in 1..Len(eventHandlers) :
        ( /\ eventHandlers[i].event = eventHandlers[j].event
          /\ eventHandlers[i].handle = eventHandlers[j].handle ) => i = j

\* C5: on() with an event name outside the four supported names, or with a
\* handler that is not a function, returns undefined and leaves the registry
\* as it was.
C5_RejectedOnChangesNothing ==
    [][ ( /\ last'.op = "on"
          /\ (last'.event \notin FourNames \/ last'.handler.type # "function") )
        => /\ last'.ret = Undefined
           /\ eventHandlers' = eventHandlers ]_vars

\* A non-empty registry has seen an on() with an unsupported name and a
\* function, and one with a supported name and a string.
C5_Witness ==
    /\ last.op = "on"
    /\ eventHandlers # << >>
    /\ \/ last.event \notin FourNames /\ last.handler.type = "function"
       \/ last.event \in FourNames /\ last.handler.type = "string"

\* C6: on() with a supported event name and a function appends exactly one
\* subscription {event, handle, handler} at the end of the registry, returns
\* its handle, and leaves the earlier subscriptions and their order unchanged.
C6_AcceptedOnAppendsOne ==
    [][ ( /\ last'.op = "on"
          /\ last'.event \in FourNames
          /\ last'.handler.type = "function" )
        => /\ Len(eventHandlers') = Len(eventHandlers) + 1
           /\ SubSeq(eventHandlers', 1, Len(eventHandlers)) = eventHandlers
           /\ LET new == eventHandlers'[Len(eventHandlers')]
              IN  /\ new.event = last'.event
                  /\ new.handler = last'.handler
                  /\ new.handle = last'.ret
                  /\ last'.ret # Undefined ]_vars

\* An on() has appended a subscription behind an earlier one.
C6_Witness ==
    /\ last.op = "on"
    /\ last.ret # Undefined
    /\ Len(eventHandlers) >= 2

\* C7: off() with a pair that no registered subscription holds returns null
\* and leaves the registry unchanged.
C7_UnknownOffChangesNothing ==
    [][ ( /\ last'.op = "off"
          /\ Matches(eventHandlers, last'.event, last'.handle) = {} )
        => /\ last'.ret = Null
           /\ last'.rejections = 0
           /\ eventHandlers' = eventHandlers ]_vars

\* An off() has returned null for a handle that is registered under another
\* event name.
C7_Witness ==
    /\ last.op = "off"
    /\ last.ret = Null
    /\ \E i \in 1..Len(eventHandlers) :
           /\ eventHandlers[i].handle = last.handle
           /\ eventHandlers[i].event # last.event

\* The polls of start() that are still waiting, and the wirings made.
PendingAssign == Len(SelectSeq(timers, LAMBDA t : t.cb = "assignEventHandlers"))

Wirings == listeners["callConnected"]

\* C8: the listeners are registered only in a step that finds the controller
\* available; every start() call is either still polling or has wired exactly
\* once; and once the controller is available every pending poll of start()
\* ends (in its wiring).
C8_WiredOnceWhenControllerReady ==
    /\ [][listeners' # listeners => controller]_vars
    /\ [](\A src \in SourceEvents : listeners[src] = Wirings)
    /\ [](Wirings + PendingAssign = started)
    /\ (controller ~> PendingAssign = 0)

\* A poll of a start() made before the controller was there has wired.
C8_Witness ==
    /\ last.op = "timer"
    /\ last.event = "assignEventHandlers"
    /\ controller
    /\ Wirings >= 1
    /\ PendingAssign = 0

\* C9: while the controller is unavailable every failed check arms exactly one
\* timer with the callback it was given, so every start() and setDefaultTitle()
\* call made so far has its retry pending; no step invokes a subscriber, leaves
\* an error or registers a listener.
C9_FailedCheckAlwaysRetries ==
    /\ [][~controller' =>
            /\ last'.calls = << >>
            /\ last'.rejections = 0
            /\ listeners' = listeners
            /\ pageTitleDefault' = pageTitleDefault]_vars
    /\ [][(~controller /\ last'.op = "timer") =>
            timers' = Append(Tail(timers), Head(timers))]_vars
    /\ [][(~controller /\ last'.op \in { "start", "setDefaultTitle" }) =>
            /\ Len(timers') = Len(timers) + 1
            /\ SubSeq(timers', 1, Len(timers)) = timers
            /\ timers'[Len(timers')].cb =
                   (IF last'.op = "start" THEN "assignEventHandlers"
                                          ELSE "setDefaultTitle")]_vars
    /\ [](~controller => Len(timers) = started + titled)

\* A retry has failed again and two retries are pending.
C9_Witness ==
    /\ last.op = "timer"
    /\ ~controller
    /\ started >= 1
    /\ Len(timers) >= 2

\* C10: a worker message whose payload is not an array invokes no subscriber,
\* starts no calendar refresh (suspends no call) and leaves the registry as it
\* was.
C10_NonArrayPayloadIgnored ==
    [][ ( /\ last'.op = "messageUpdatesFromWorker"
          /\ last'.data # "array" )
        => /\ last'.calls = << >>
           /\ last'.rejections = 0
           /\ inflight' = inflight
           /\ eventHandlers' = eventHandlers ]_vars

\* A wired hub with a meeting-started subscriber has been handed an object
\* that is no array.
C10_Witness ==
    /\ last.op = "messageUpdatesFromWorker"
    /\ last.data = "object"
    /\ listeners["messageUpdatesFromWorker"] > 0
    /\ \E i \in 1..Len(eventHandlers) : eventHandlers[i].event = "meeting-started"


\* C11: the registry is changed by on() and off() only: a step of start(),
\* setDefaultTitle(), the polling wait (a timer, with or without the wiring)
\* or a relay whose subscribers call neither on() nor off() leaves the
\* subscriptions, their order and their contents as they were.
C11_RegistryChangesOnlyThroughOnOff ==
    [][ last'.op \notin { "on", "off" }
        => /\ eventHandlers' = eventHandlers
           /\ made' = made ]_vars

\* A relay of the bell count has invoked the subscribers of a hub that was
\* wired by a poll.
C11_Witness ==
    /\ last.op = "bellCountUpdated"
    /\ last.calls # << >>
    /\ eventHandlers # << >>
    /\ titled >= 1


\* The polls of setDefaultTitle() that are still waiting.
PendingTitle == Len(SelectSeq(timers, LAMBDA t : t.cb = "setDefaultTitle"))

\* A step of setDefaultTitle(): the call, or a check of its polling wait.
TitleStep(step) ==
    \/ step.op = "setDefaultTitle"
    \/ step.op = "timer" /\ step.event = "setDefaultTitle"

C13_NoSubscriberDispatchIsNoOp ==
    [][ ( /\ MappedEvent(last'.op) # ""
          /\ SubscribersOf(eventHandlers, MappedEvent(last'.op)) = << >> )
        => /\ last'.calls = << >>
           /\ last'.rejections = 0
           /\ UNCHANGED << eventHandlers, made, controller, timers, listeners,
                           pageTitleDefault, inflight, started, titled,
                           titleWrites >> ]_vars

\* A wired hub has relayed callConnected with no call-connected subscriber
\* while another event name has one.
C13_Witness ==
    /\ last.op = "callConnected"
    /\ listeners["callConnected"] > 0
    /\ SubscribersOf(eventHandlers, "call-connected") = << >>
    /\ eventHandlers # << >>


\* C14: a turn of the refresh loop that finds the status still pending changes
\* nothing and invokes nobody, the call stays suspended; a turn that finds it
\* resolved or rejected ends the loop and the call leaves the suspended ones;
\* nothing else ends a suspended call, and the meeting-started subscribers are
\* invoked only by a turn that ends the loop.
C14_RefreshEndsOnlyWhenStatusLeavesPending ==
    /\ [][ last'.op = "refreshTimer"
           => IF inflight[last'.call].status = 0
              THEN /\ inflight' = inflight
                   /\ last'.calls = << >>
                   /\ last'.rejections = 0
                   /\ eventHandlers' = eventHandlers
              ELSE inflight' = Splice1(inflight, last'.call) ]_vars
    /\ [][ ( \/ Len(inflight') < Len(inflight)
             \/ \E k \in 1..Len(last'.calls) : last'.calls[k].payload.kind = "title" )
           => /\ last'.op = "refreshTimer"
              /\ inflight[last'.call].status # 0 ]_vars

\* The timer of a call that holds a subscriber has fired and the call is
\* still suspended on the pending refresh.
C14_Witness ==
    /\ last.op = "refreshTimer"
    /\ last.call \in 1..Len(inflight)
    /\ inflight[last.call].status = 0
    /\ inflight[last.call].handlers # << >>


\* The subscription with this id is in the registry.
Registered(reg, id) == \E i \in 1..Len(reg) : reg[i].id = id

\* The titles of the meeting notifications a suspended call m gets from the
\* cache it reads.
NotificationTitles(m, cached) ==
    LET events == getMeetingNotificationList(m.workerEvents, activeCalendarEvents(cached))
    IN  [ k \in 1..Len(events) |-> events[k].subject ]

\* Every subscriber of subs invoked with every title, notification by
\* notification, as << subscriber, title >> pairs.
EachForEach(subs, titles) ==
    [ k \in 1..(Len(subs) * Len(titles)) |->
        << subs[((k - 1) % Len(subs)) + 1], titles[((k - 1) \div Len(subs)) + 1] >> ]

CallsSubsTitles(calls) ==
    [ k \in 1..Len(calls) |-> << calls[k].sub, calls[k].payload.title >> ]

\* C15: when the refresh of a suspended worker message ends after one of the
\* subscribers it had read was unsubscribed, and no callback throws, the
\* unsubscribed subscriber is not invoked and each subscriber that is still
\* registered is invoked once for each meeting notification.
C15_UnsubscribedDuringRefreshOthersInvoked ==
    [][ ( /\ last'.op = "refreshTimer"
          /\ inflight[last'.call].status # 0
          /\ \E k \in 1..Len(inflight[last'.call].handlers) :
                 ~Registered(eventHandlers, inflight[last'.call].handlers[k])
          /\ \A k \in 1..Len(last'.calls) : ~last'.calls[k].threw )
        => LET m == inflight[last'.call]
               still == SelectSeq(m.handlers, LAMBDA id : Registered(eventHandlers, id))
           IN  CallsSubsTitles(last'.calls)
                   = EachForEach(still, NotificationTitles(m, last'.cached)) ]_vars


\* C16: a relay of callConnected in which one subscriber's callback calls
\* off() for a subscription of call-connected that comes after it (the other
\* callbacks are plain, none throws) ends without error: the removed
\* subscription is not invoked and all the others are invoked once, in
\* registration order.
C16_OffDuringDispatchCompletes ==
    [][ ( /\ last'.op = "callConnected"
          /\ listeners["callConnected"] = 1
          /\ \A k \in 1..Len(last'.calls) : ~last'.calls[k].threw )
        => \A j, i \in 1..Len(eventHandlers) :
               ( /\ j < i
                 /\ eventHandlers[j].handler.body = "unsub"
                 /\ eventHandlers[j].handler.hd = eventHandlers[i].handle
                 /\ Matches(eventHandlers, "call-connected", eventHandlers[i].handle) = { i }
                 /\ \A k \in 1..Len(eventHandlers) :
                        k # j => eventHandlers[k].handler.body = "f" )
               => /\ last'.rejections = 0
                  /\ CallsSubs(last'.calls) = IdsOf(Without(eventHandlers, i)) ]_vars


\* The ids a step invoked.
Invoked(calls) == { calls[k].sub : k \in 1..Len(calls) }

\* What holds of C17 in the code: a relay of callConnected invokes only
\* subscriptions that were registered when it began, each at most once, so one
\* that a callback adds during the relay is not invoked by it.
InvokedWereRegisteredAtStart ==
    [][ ( /\ last'.op = "callConnected"
          /\ listeners["callConnected"] = 1 )
        => /\ \A k \in 1..Len(last'.calls) :
                  Registered(eventHandlers, last'.calls[k].sub)
           /\ \A j, k \in 1..Len(last'.calls) :
                  last'.calls[j].sub = last'.calls[k].sub => j = k ]_vars

\* C17: the subscriptions a relay of callConnected invokes are exactly the
\* ones registered for call-connected when the event is handled, also when a
\* callback calls on() during the relay.
C17_InvokedAreExactlyThoseRegisteredAtStart ==
    [][ ( /\ last'.op = "callConnected"
          /\ listeners["callConnected"] = 1 )
        => Invoked(last'.calls)
               = { eventHandlers[i].id : i \in 1..Len(eventHandlers) } ]_vars


\* A step that dispatches activities-count-updated: the wiring, made by the
\* check of start() that finds the controller, and a count event on a wired
\* hub.
CountDispatchStep(step) ==
    \/ /\ controller
       /\ \/ step.op = "start"
          \/ step.op = "timer" /\ step.event = "assignEventHandlers"
    \/ /\ step.op \in { "bellCountUpdated", "EventType_UnreadCount" }
       /\ listeners[step.op] = 1

\* What holds of C18 in the code: such a step invokes subscribers of
\* activities-count-updated only, from the first on in registration order,
\* each with the sum of the two counts it read.
CountPayloadIsSumForInvoked ==
    [][ CountDispatchStep(last')
        => LET subs == SubscribersOf(eventHandlers, "activities-count-updated")
           IN  /\ Len(last'.calls) <= Len(subs)
               /\ \A k \in 1..Len(last'.calls) :
                      /\ last'.calls[k].sub = subs[k]
                      /\ last'.calls[k].payload
                             = CountPayload(last'.bell + last'.chat) ]_vars

\* C18: the wiring step and every later bell-count or chat-unread-count event
\* dispatch activities-count-updated once: every subscriber of
\* activities-count-updated is passed, once, a payload whose count is the sum
\* of the bell notification count and the chat-list unread count read by the
\* step.
C18_CountDispatchedOnceWithSumToEverySubscriber ==
    [][ CountDispatchStep(last')
        => /\ CallsSubs(last'.calls)
                  = SubscribersOf(eventHandlers, "activities-count-updated")
           /\ \A k \in 1..Len(last'.calls) :
                  last'.calls[k].payload = CountPayload(last'.bell + last'.chat) ]_vars


\* The records of a message that are call events with the empty
\* participant-list content.
MeetingRecords(items) ==
    SelectSeq(items, LAMBDA r : /\ r.messagetype = "Event/Call"
                                /\ r.content = EmptyPartList)

\* The title a record contributes: that of the first entry of the cache that
\* has not ended and belongs to the record's conversation, if there is one.
TitleFor(record, cached) ==
    LET hits == { i \in 1..Len(cached) :
                    /\ cached[i].endTime > RightNow
                    /\ JsonCid(cached[i].skypeTeamsData)
                           = MeetingIdOf(record.conversationLink) }
    IN  IF hits = {} THEN << >>
        ELSE << cached[CHOOSE i \in hits : \A j \in hits : i <= j].subject >>

RECURSIVE TitlesFor(_, _)
TitlesFor(records, cached) ==
    IF records = << >> THEN << >>
    ELSE TitleFor(Head(records), cached) \o TitlesFor(Tail(records), cached)

\* The titles dispatched by a step, one for each run of the handlers: the
\* titles passed to the first of them.
DispatchedTitles(calls, handlers) ==
    LET first == SelectSeq(calls, LAMBDA c : c.sub = handlers[1])
    IN  [ k \in 1..Len(first) |-> first[k].payload.title ]

C20_OneEventInvokesEachSubscriberOnce ==
    [][ ( /\ last'.op = "bellCountUpdated"
          /\ listeners["bellCountUpdated"] >= 1
          /\ \A k \in 1..Len(last'.calls) : ~last'.calls[k].threw )
        => CallsSubs(last'.calls)
               = SubscribersOf(eventHandlers, "activities-count-updated") ]_vars

====
